---- MODULE Spec2Model ----
(***************************************************************************)
(* Model of the Trash-Manager backend kill operations                      *)
(* (backend/src/process_kill.rs): kill_pid, kill_tree, kill_cgroup, run by *)
(* concurrent callers against a kernel process table whose processes may   *)
(* exit at any moment.                                                     *)
(***************************************************************************)
EXTENDS Integers, Sequences, FiniteSets, TLC

\* ---------------------------------------------------------------- bounds
NumPids == 2
NumCalls == 2

Pids == 1..NumPids
Calls == 1..NumCalls

\* ------------------------------------------------------- kernel fixtures
\* Scheduling states of a process as reported by the kernel: running,
\* stopped, disk-wait, zombie; "X" is "no such process".
ProcStates == {"R", "T", "D", "Z", "X"}

\* PID 1 is init, owned by root; the caller is an ordinary user and may not
\* signal it.  Every other PID belongs to the caller.
Permitted(p) == p # 1

\* Parent links of the process table: PID 1 (init) has no parent, PIDs 2 and
\* 3 are its children, PID 4 is a child of PID 2, and so on.
Ppid(p) == p \div 2

\* cgroup paths handed to kill_cgroup; only the first has a cgroup.kill file.
CgroupPaths == {"/sys/fs/cgroup/app", "/sys/fs/cgroup/v1only"}
ControlFileExists(path) == path = "/sys/fs/cgroup/app"

VARIABLES
    procState,      \* kernel: [Pids -> ProcStates]
    cgroupWritten,  \* cgroup paths whose cgroup.kill file received "1"
    op,             \* per caller: operation in progress
    pc,             \* per caller: position inside the operation
    pid,            \* per caller: pid argument (0 when none)
    path,           \* per caller: cgroup path argument ("" when none)
    trace,          \* per caller: kernel actions performed by the call
    result          \* per caller: value returned by the call

VARIABLES
    now,                 \* kernel: monotonic clock (Instant::now), in time units
    tracker_some,        \* CPU_TRACKER holds Some(CpuTracker)
    process_data,        \* CpuTracker.process_data: pid -> sample, NoSample when absent
    last_system_total,   \* CpuTracker.last_system_total
    last_system_update,  \* CpuTracker.last_system_update
    lock,                \* caller holding the CPU_TRACKER mutex (0 = free)
    all_procs,           \* per caller: pids the /proc iterator still has to yield
    stat,                \* per caller: stat record (and statm) of the current pid
    calc,                \* per caller: locals of calculate_cpu_percent
    current_pids,        \* per caller: pids pushed so far
    processes,           \* per caller: ProcessInfo records pushed so far
    observed_at,         \* history (HistorySpec only): time of the latest
                         \* calculate_cpu_percent call for each pid (-1 = never)
    pass_start           \* history (PassSpec only): start time of the latest
                         \* enumeration pass if every stored sample was at
                         \* least one second old then, else -1

VARIABLES
    app_processes,  \* ProcessManagerApp.processes: the displayed snapshot
    last_refresh,   \* ProcessManagerApp.last_refresh
    killing,        \* ProcessManagerApp.killing: set of pids
    pending,        \* spawn_blocking closures not yet started, as their pids
    task            \* per caller: pid of the closure it runs (0 when none)

killVars == <<procState, cgroupWritten, op, pc, pid, path, trace, result>>

listVars == <<now, tracker_some, process_data, last_system_total,
              last_system_update, lock, all_procs, stat, calc, current_pids,
              processes, observed_at, pass_start>>

uiVars == <<app_processes, last_refresh, killing, pending, task>>

vars == <<procState, cgroupWritten, op, pc, pid, path, trace, result,
          now, tracker_some, process_data, last_system_total,
          last_system_update, lock, all_procs, stat, calc, current_pids,
          processes, observed_at, pass_start,
          app_processes, last_refresh, killing, pending, task>>

\* ------------------------------------------------------------ ProcError
NoResult == [kind |-> "None", pid |-> 0, cause |-> ""]
Ok == [kind |-> "Ok", pid |-> 0, cause |-> ""]
SignalError(p, e) == [kind |-> "SignalError", pid |-> p, cause |-> e]

\* ------------------------------------------------- nix::sys::signal::kill
\* Result of kill(2): ESRCH when no such process, EPERM when the caller may
\* not signal it, otherwise success.
SignalKill(p, sig) ==
    IF procState[p] = "X" THEN "ESRCH"
    ELSE IF ~Permitted(p) THEN "EPERM"
    ELSE "OK"

\* Effect of a delivered signal on the target's scheduling state.  SIGSTOP
\* stops a running process, SIGKILL removes a running or stopped one; SIGTERM
\* only becomes pending; the probe (signal 0) has no effect; signals do not
\* change the disposition of a disk-wait or zombie process.
SignalEffect(st, sig) ==
    CASE sig = "SIGSTOP" /\ st = "R" -> "T"
      [] sig = "SIGKILL" /\ st \in {"R", "T"} -> "X"
      [] OTHER -> st

Entry(p, sig, res) == [pid |-> p, sig |-> sig, res |-> res]

\* One signal::kill call made by caller c: the kernel state after it and the
\* record appended to the caller's trace.
Send(c, p, sig) ==
    LET res == SignalKill(p, sig) IN
    /\ procState' = IF res = "OK"
                    THEN [procState EXCEPT ![p] = SignalEffect(@, sig)]
                    ELSE procState
    /\ trace' = [trace EXCEPT ![c] = Append(@, Entry(p, sig, res))]

Finish(c, r) ==
    /\ pc' = [pc EXCEPT ![c] = "done"]
    /\ result' = [result EXCEPT ![c] = r]

Goto(c, l) ==
    /\ pc' = [pc EXCEPT ![c] = l]
    /\ UNCHANGED result

\* --------------------------------------------------------------- kill_pid
CallKillPid(c, p) ==
    /\ op[c] = "idle"
    /\ op' = [op EXCEPT ![c] = "kill_pid"]
    /\ pid' = [pid EXCEPT ![c] = p]
    /\ Goto(c, "stop")
    /\ UNCHANGED <<procState, cgroupWritten, path, trace>>
    /\ UNCHANGED <<listVars, uiVars>>

\* Variant of KillStop with the first two signals swapped: the call opens
\* with SIGTERM instead of SIGSTOP.
KillStopSwapped(c) ==
    /\ op[c] = "kill_pid" /\ pc[c] = "stop"
    /\ Send(c, pid[c], "SIGTERM")
    /\ IF SignalKill(pid[c], "SIGTERM") # "OK"
       THEN Finish(c, SignalError(pid[c], SignalKill(pid[c], "SIGTERM")))
       ELSE Goto(c, "term")
    /\ UNCHANGED <<cgroupWritten, op, pid, path>>
    /\ UNCHANGED <<listVars, uiVars>>

\* if let Err(e) = signal::kill(pid, Signal::SIGSTOP) { return Err(SignalError) }
KillStop(c) ==
    /\ op[c] = "kill_pid" /\ pc[c] = "stop"
    /\ Send(c, pid[c], "SIGSTOP")
    /\ IF SignalKill(pid[c], "SIGSTOP") # "OK"
       THEN Finish(c, SignalError(pid[c], SignalKill(pid[c], "SIGSTOP")))
       ELSE Goto(c, "term")
    /\ UNCHANGED <<cgroupWritten, op, pid, path>>
    /\ UNCHANGED <<listVars, uiVars>>

\* if let Err(e) = signal::kill(pid, Signal::SIGTERM) { return Err(SignalError) }
KillTerm(c) ==
    /\ op[c] = "kill_pid" /\ pc[c] = "term"
    /\ Send(c, pid[c], "SIGTERM")
    /\ IF SignalKill(pid[c], "SIGTERM") # "OK"
       THEN Finish(c, SignalError(pid[c], SignalKill(pid[c], "SIGTERM")))
       ELSE Goto(c, "sleep")
    /\ UNCHANGED <<cgroupWritten, op, pid, path>>
    /\ UNCHANGED <<listVars, uiVars>>

\* thread::sleep(Duration::from_millis(500))
KillSleep(c) ==
    /\ op[c] = "kill_pid" /\ pc[c] = "sleep"
    /\ trace' = [trace EXCEPT ![c] = Append(@, Entry(pid[c], "wait500", "OK"))]
    /\ Goto(c, "probe")
    /\ UNCHANGED <<procState, cgroupWritten, op, pid, path>>
    /\ UNCHANGED <<listVars, uiVars>>

\* Variant of KillProbe that ignores the probe's outcome and always escalates.
KillProbeIgnored(c) ==
    /\ op[c] = "kill_pid" /\ pc[c] = "probe"
    /\ Send(c, pid[c], "probe")
    /\ Goto(c, "kill")
    /\ UNCHANGED <<cgroupWritten, op, pid, path>>
    /\ UNCHANGED <<listVars, uiVars>>

\* if let Err(_) = signal::kill(pid, None) { return Ok(()) }
KillProbe(c) ==
    /\ op[c] = "kill_pid" /\ pc[c] = "probe"
    /\ Send(c, pid[c], "probe")
    /\ IF SignalKill(pid[c], "probe") # "OK"
       THEN Finish(c, Ok)
       ELSE Goto(c, "kill")
    /\ UNCHANGED <<cgroupWritten, op, pid, path>>
    /\ UNCHANGED <<listVars, uiVars>>

\* Variant of KillKill that reports success whatever the send returned.
KillKillIgnoresFailure(c) ==
    /\ op[c] = "kill_pid" /\ pc[c] = "kill"
    /\ Send(c, pid[c], "SIGKILL")
    /\ Finish(c, Ok)
    /\ UNCHANGED <<cgroupWritten, op, pid, path>>
    /\ UNCHANGED <<listVars, uiVars>>

\* if let Err(e) = signal::kill(pid, Signal::SIGKILL) { return Err(SignalError) }
\* Ok(())
KillKill(c) ==
    /\ op[c] = "kill_pid" /\ pc[c] = "kill"
    /\ Send(c, pid[c], "SIGKILL")
    /\ IF SignalKill(pid[c], "SIGKILL") # "OK"
       THEN Finish(c, SignalError(pid[c], SignalKill(pid[c], "SIGKILL")))
       ELSE Finish(c, Ok)
    /\ UNCHANGED <<cgroupWritten, op, pid, path>>
    /\ UNCHANGED <<listVars, uiVars>>

\* -------------------------------------------------------------- kill_tree
\* Variant of KillTree that walks the ppid link the wrong way: it signals the
\* parent of the requested pid (the pid itself when it has no parent).
KillTreeUpwards(c, p) ==
    /\ op[c] = "idle"
    /\ op' = [op EXCEPT ![c] = "kill_tree"]
    /\ pid' = [pid EXCEPT ![c] = p]
    /\ Send(c, IF Ppid(p) # 0 THEN Ppid(p) ELSE p, "SIGKILL")
    /\ Finish(c, Ok)
    /\ UNCHANGED <<cgroupWritten, path>>
    /\ UNCHANGED <<listVars, uiVars>>

\* pub fn kill_tree(_pid: i32) -> Result<(), ProcError> { Ok(()) }
KillTree(c, p) ==
    /\ op[c] = "idle"
    /\ op' = [op EXCEPT ![c] = "kill_tree"]
    /\ pid' = [pid EXCEPT ![c] = p]
    /\ Finish(c, Ok)
    /\ UNCHANGED <<procState, cgroupWritten, path, trace>>
    /\ UNCHANGED <<listVars, uiVars>>

\* ------------------------------------------------------------ kill_cgroup
\* pub fn kill_cgroup(_cgroup_path: &str) -> Result<(), ProcError> { Ok(()) }
KillCgroup(c, cg) ==
    /\ op[c] = "idle"
    /\ op' = [op EXCEPT ![c] = "kill_cgroup"]
    /\ path' = [path EXCEPT ![c] = cg]
    /\ Finish(c, Ok)
    /\ UNCHANGED <<procState, cgroupWritten, pid, trace>>
    /\ UNCHANGED <<listVars, uiVars>>

\* The caller takes the returned value and is free to call again.
Return(c) ==
    /\ pc[c] = "done"
    /\ op' = [op EXCEPT ![c] = "idle"]
    /\ pc' = [pc EXCEPT ![c] = "idle"]
    /\ pid' = [pid EXCEPT ![c] = 0]
    /\ path' = [path EXCEPT ![c] = ""]
    /\ trace' = [trace EXCEPT ![c] = <<>>]
    /\ result' = [result EXCEPT ![c] = NoResult]
    /\ UNCHANGED <<procState, cgroupWritten>>
    /\ UNCHANGED <<listVars, uiVars>>

\* ------------------------------------------------------------ environment
\* A process exits (or is reaped) on its own account, at any moment.
ProcessExit(p) ==
    /\ procState[p] # "X"
    /\ procState' = [procState EXCEPT ![p] = "X"]
    /\ UNCHANGED <<cgroupWritten, op, pc, pid, path, trace, result>>
    /\ UNCHANGED <<listVars, uiVars>>

\* ======================================================================
\* list_processes and the CPU tracker (backend/src/process_list.rs)
\* ======================================================================

\* ---------------------------------------------------------------- bounds
\* Time is counted in units of 1/UnitsPerSecond second, up to MaxTime units.
UnitsPerSecond == 2
MaxTime == 3
\* utime and stime read from a stat record lie in 0..MaxUtime and
\* 0..MaxStime, the total of the cpu line of /proc/stat in 0..MaxSysTicks;
\* a readable statm record reports MaxResident resident pages.
MaxUtime == 2
MaxStime == 0
MaxSysTicks == 1
MaxResident == 1

\* let clock_ticks_per_second = 100;
ClockTicksPerSecond == 100
\* m.resident * 4096
PageSize == 4096

\* --------------------------------------------------------- f64 arithmetic
\* Non-negative values are kept as exact fractions in lowest terms.
RECURSIVE Gcd(_, _)
Gcd(a, b) == IF b = 0 THEN a ELSE Gcd(b, a % b)

Rat(n, d) == LET g == Gcd(n, d) IN [num |-> n \div g, den |-> d \div g]

RatMul(x, y) == Rat(x.num * y.num, x.den * y.den)
RatDiv(x, y) == Rat(x.num * y.den, x.den * y.num)
RatLe(x, y) == x.num * y.den <= y.num * x.den
RatMin(x, y) == IF RatLe(y, x) THEN y ELSE x
RatMax(x, y) == IF RatLe(x, y) THEN y ELSE x

Zero == Rat(0, 1)
One == Rat(1, 1)
Hundred == Rat(100, 1)

\* Variant of SaturatingSub that wraps around (at a reduced width).
WrappingSub(a, b) == (a - b) % 65536

\* u64::saturating_sub
SaturatingSub(a, b) == IF a >= b THEN a - b ELSE 0

\* ------------------------------------------------------------- CpuTracker
\* ProcessCpuData (utime and stime are stored but never read: dead_code).
Sample(total, t) == [total_time |-> total, last_update |-> t]
NoSample == [total_time |-> -1, last_update |-> -1]

\* read_system_cpu_times(): the total of the cpu line, or 0 when /proc/stat
\* cannot be read or parsed.  (The idle value is stored but never read.)
SystemReads == 0..MaxSysTicks

\* Variant of EnoughTime that forgets the per-PID elapsed time.
EnoughTimeSystemOnly(elapsed_seconds, system_elapsed_seconds) ==
    RatLe(One, system_elapsed_seconds)

\* Variant of EnoughTime that forgets the system-wide elapsed time.
EnoughTimePidOnly(elapsed_seconds, system_elapsed_seconds) ==
    RatLe(One, elapsed_seconds)

\* if elapsed_seconds >= 1.0 && system_elapsed_seconds >= 1.0
EnoughTime(elapsed_seconds, system_elapsed_seconds) ==
    RatLe(One, elapsed_seconds) /\ RatLe(One, system_elapsed_seconds)

\* Variant of RawCpuPercent that always takes the time-based quotient.
RawCpuPercentTimeOnly(process_cpu_seconds, system_cpu_seconds, elapsed_seconds) ==
    RatMul(RatDiv(process_cpu_seconds, elapsed_seconds), Hundred)

\* let cpu_percent = if system_cpu_seconds > 0.0 { (p / s) * 100.0 }
\*                   else { (p / elapsed_seconds) * 100.0 };
RawCpuPercent(process_cpu_seconds, system_cpu_seconds, elapsed_seconds) ==
    IF system_cpu_seconds.num > 0
    THEN RatMul(RatDiv(process_cpu_seconds, system_cpu_seconds), Hundred)
    ELSE RatMul(RatDiv(process_cpu_seconds, elapsed_seconds), Hundred)

\* Variant of Clamp that returns the raw quotient.
ClampMissing(cpu_percent) == cpu_percent

\* (cpu_percent.min(100.0).max(0.0)) as f32
Clamp(cpu_percent) == RatMax(RatMin(cpu_percent, Hundred), Zero)

\* Variant of FirstObservation that also restarts the system-wide sample.
FirstObservationTouchesSystem(pd, lst, lsu, p, total_time, t) ==
    [cpu_percent |-> Zero,
     process_data |-> [pd EXCEPT ![p] = Sample(total_time, t)],
     last_system_total |-> lst,
     last_system_update |-> t]

\* First time seeing this process: self.process_data.insert(pid, ..); 0.0
FirstObservation(pd, lst, lsu, p, total_time, t) ==
    [cpu_percent |-> Zero,
     process_data |-> [pd EXCEPT ![p] = Sample(total_time, t)],
     last_system_total |-> lst,
     last_system_update |-> lsu]

\* Variant of NotEnoughTime that clears the stored system total.
NotEnoughTimeDropsSystemTotal(pd, lst, lsu) ==
    [cpu_percent |-> Zero, process_data |-> pd,
     last_system_total |-> 0, last_system_update |-> lsu]

\* Not enough time elapsed, return 0
NotEnoughTime(pd, lst, lsu) ==
    [cpu_percent |-> Zero, process_data |-> pd,
     last_system_total |-> lst, last_system_update |-> lsu]

\* calculate_cpu_percent(&mut self, pid, utime, stime) with now = t and the
\* system total read = sys, on the tracker fields pd (process_data), lst
\* (last_system_total), lsu (last_system_update): the value returned and the
\* fields afterwards.
CalculateCpuPercent(pd, lst, lsu, p, utime, stime, t, sys) ==
    LET total_time == utime + stime
        prev_data == pd[p]
    IN
    IF prev_data # NoSample
    THEN LET elapsed_seconds == Rat(t - prev_data.last_update, UnitsPerSecond)
             system_elapsed_seconds == Rat(t - lsu, UnitsPerSecond)
         IN
         IF EnoughTime(elapsed_seconds, system_elapsed_seconds)
         THEN LET process_time_diff == SaturatingSub(total_time, prev_data.total_time)
                  process_cpu_seconds == Rat(process_time_diff, ClockTicksPerSecond)
                  system_total_diff == SaturatingSub(sys, lst)
                  system_cpu_seconds == Rat(system_total_diff, ClockTicksPerSecond)
                  cpu_percent == RawCpuPercent(process_cpu_seconds,
                                               system_cpu_seconds, elapsed_seconds)
                  fresh == RatLe(One, system_elapsed_seconds)
              IN [cpu_percent |-> Clamp(cpu_percent),
                  process_data |-> [pd EXCEPT ![p] = Sample(total_time, t)],
                  last_system_total |-> IF fresh THEN sys ELSE lst,
                  last_system_update |-> IF fresh THEN t ELSE lsu]
         ELSE NotEnoughTime(pd, lst, lsu)
    ELSE FirstObservation(pd, lst, lsu, p, total_time, t)

\* Variant of CleanupOldProcesses that evicts nothing.
CleanupKeepsAll(pd, pids) == pd

\* cleanup_old_processes(&mut self, current_pids): retain the listed pids.
CleanupOldProcesses(pd, pids) ==
    [p \in Pids |-> IF \E i \in 1..Len(pids) : pids[i] = p THEN pd[p] ELSE NoSample]

\* --------------------------------------------------------- list_processes
NoStat == [pid |-> 0, utime |-> 0, stime |-> 0, state |-> "X", ppid |-> 0, statm |-> -1]
NoCalc == [now |-> -1, system_total |-> -1, prev_data |-> NoSample]

\* ProcessInfo (name left out: it is copied from the stat record unread).
ProcessInfo(p, cpu, mem, st, pp) ==
    [pid |-> p, cpu_percent |-> cpu, memory_bytes |-> mem, state |-> st, ppid |-> pp]

\* ProcError::Other("Failed to read /proc: ...")
Other == [kind |-> "Other", pid |-> 0, cause |-> "Failed to read /proc"]

\* The entries of /proc in ascending order, from pid k on.
RECURSIVE ProcEntries(_)
ProcEntries(k) ==
    IF k > NumPids THEN <<>>
    ELSE (IF procState[k] # "X" THEN <<k>> ELSE <<>>) \o ProcEntries(k + 1)

\* Variant of CallListProcesses that creates the tracker before reading /proc.
CallListProcessesInitFirst(c) ==
    /\ op[c] = "idle"
    /\ op' = [op EXCEPT ![c] = "list_processes"]
    /\ tracker_some' = TRUE
    /\ process_data' = [p \in Pids |-> NoSample]
    /\ \E readable \in BOOLEAN :
          IF readable
          THEN /\ all_procs' = [all_procs EXCEPT ![c] = ProcEntries(1)]
               /\ Goto(c, "init")
          ELSE /\ Finish(c, Other)
               /\ UNCHANGED all_procs
    /\ UNCHANGED <<procState, cgroupWritten, pid, path, trace>>
    /\ UNCHANGED <<now, last_system_total,
                   last_system_update, lock, stat, calc, current_pids, processes, observed_at, pass_start, uiVars>>

\* let all_procs = procfs::process::all_processes().map_err(..)?;
CallListBody(c) ==
    /\ op[c] = "idle"
    /\ op' = [op EXCEPT ![c] = "list_processes"]
    /\ \E readable \in BOOLEAN :
          IF readable
          THEN /\ all_procs' = [all_procs EXCEPT ![c] = ProcEntries(1)]
               /\ Goto(c, "init")
          ELSE /\ Finish(c, Other)
               /\ UNCHANGED all_procs
    /\ UNCHANGED <<procState, cgroupWritten, pid, path, trace>>
    /\ UNCHANGED <<now, tracker_some, process_data, last_system_total,
                   last_system_update, lock, stat, calc, current_pids,
                   processes, observed_at>>

CallListProcesses(c) ==
    /\ CallListBody(c)
    /\ UNCHANGED <<pass_start, uiVars>>

\* { let mut g = CPU_TRACKER.lock().unwrap();
\*   if g.is_none() { *g = Some(CpuTracker::new()); } }
ListInitTracker(c) ==
    /\ op[c] = "list_processes" /\ pc[c] = "init"
    /\ lock = 0
    /\ IF tracker_some
       THEN UNCHANGED <<tracker_some, process_data, last_system_total, last_system_update>>
       ELSE \E sys \in SystemReads :
               /\ tracker_some' = TRUE
               /\ process_data' = [p \in Pids |-> NoSample]
               /\ last_system_total' = sys
               /\ last_system_update' = now
    /\ Goto(c, "iter")
    /\ UNCHANGED <<procState, cgroupWritten, op, pid, path, trace>>
    /\ UNCHANGED <<now, lock, all_procs, stat, calc, current_pids, processes, observed_at, pass_start, uiVars>>

\* Variant of ListNextProc that fails the call on an unreadable stat record.
ListNextProcFailsOnStat(c) ==
    /\ op[c] = "list_processes" /\ pc[c] = "iter"
    /\ IF all_procs[c] = <<>>
       THEN /\ Goto(c, "cleanup")
            /\ UNCHANGED <<all_procs, stat, current_pids>>
       ELSE LET p == Head(all_procs[c]) IN
            /\ all_procs' = [all_procs EXCEPT ![c] = Tail(@)]
            /\ IF procState[p] = "X"
               THEN /\ Finish(c, Other)
                    /\ UNCHANGED <<stat, current_pids>>
               ELSE \E utime \in 0..MaxUtime, stime \in 0..MaxStime,
                       statm \in {-1, MaxResident} :
                       /\ stat' = [stat EXCEPT ![c] =
                                     [pid |-> p, utime |-> utime, stime |-> stime,
                                      state |-> procState[p], ppid |-> Ppid(p),
                                      statm |-> statm]]
                       /\ current_pids' = [current_pids EXCEPT ![c] = Append(@, p)]
                       /\ Goto(c, "calc")
    /\ UNCHANGED <<procState, cgroupWritten, op, pid, path, trace>>
    /\ UNCHANGED <<now, tracker_some, process_data, last_system_total,
                   last_system_update, lock, calc, processes, observed_at, pass_start, uiVars>>

\* for proc_result in all_procs { if let Ok(stat) = proc.stat() {
\*     current_pids.push(stat.pid); let memory_bytes = proc.statm()... } }
ListNextProc(c) ==
    /\ op[c] = "list_processes" /\ pc[c] = "iter"
    /\ IF all_procs[c] = <<>>
       THEN /\ Goto(c, "cleanup")
            /\ UNCHANGED <<all_procs, stat, current_pids>>
       ELSE LET p == Head(all_procs[c]) IN
            /\ all_procs' = [all_procs EXCEPT ![c] = Tail(@)]
            /\ IF procState[p] = "X"
               THEN /\ Goto(c, "iter")
                    /\ UNCHANGED <<stat, current_pids>>
               ELSE \E utime \in 0..MaxUtime, stime \in 0..MaxStime,
                       statm \in {-1, MaxResident} :
                       /\ stat' = [stat EXCEPT ![c] =
                                     [pid |-> p, utime |-> utime, stime |-> stime,
                                      state |-> procState[p], ppid |-> Ppid(p),
                                      statm |-> statm]]
                       /\ current_pids' = [current_pids EXCEPT ![c] = Append(@, p)]
                       /\ Goto(c, "calc")
    /\ UNCHANGED <<procState, cgroupWritten, op, pid, path, trace>>
    /\ UNCHANGED <<now, tracker_some, process_data, last_system_total,
                   last_system_update, lock, calc, processes, observed_at, pass_start, uiVars>>

\* Variant of ListCalcBegin that does not wait for the mutex.
ListCalcBeginUnlocked(c) ==
    /\ op[c] = "list_processes" /\ pc[c] = "calc"
    /\ lock' = c
    /\ \E sys \in SystemReads :
          calc' = [calc EXCEPT ![c] = [now |-> now, system_total |-> sys,
                                       prev_data |-> process_data[stat[c].pid]]]
    /\ Goto(c, "calc2")
    /\ UNCHANGED <<procState, cgroupWritten, op, pid, path, trace>>
    /\ UNCHANGED <<now, tracker_some, process_data, last_system_total,
                   last_system_update, all_procs, stat, current_pids, processes,
                   observed_at, pass_start, uiVars>>

\* let mut tracker_guard = CPU_TRACKER.lock().unwrap();
\* calculate_cpu_percent: let now = Instant::now();
\*                        let (current_system_total, _) = read_system_cpu_times();
\*                        self.process_data.get(&pid)
ListCalcBegin(c) ==
    /\ op[c] = "list_processes" /\ pc[c] = "calc"
    /\ lock = 0
    /\ lock' = c
    /\ \E sys \in SystemReads :
          calc' = [calc EXCEPT ![c] = [now |-> now, system_total |-> sys,
                                       prev_data |-> process_data[stat[c].pid]]]
    /\ Goto(c, "calc2")
    /\ UNCHANGED <<procState, cgroupWritten, op, pid, path, trace>>
    /\ UNCHANGED <<now, tracker_some, process_data, last_system_total,
                   last_system_update, all_procs, stat, current_pids, processes, observed_at, pass_start, uiVars>>

\* Variant of MemoryBytes without the unwrap_or(0) default.
MemoryBytesNoDefault(statm) == statm * PageSize

\* proc.statm().map(|m| m.resident * 4096).unwrap_or(0); statm = -1 stands
\* for an unreadable statm record.
MemoryBytes(statm) ==
    IF statm = -1 THEN 0 ELSE statm * PageSize

\* calculate_cpu_percent from line 71 on, the guard dropped,
\* processes.push(ProcessInfo { .. })
CalcEndBody(c) ==
    /\ op[c] = "list_processes" /\ pc[c] = "calc2"
    /\ LET r == CalculateCpuPercent(process_data, last_system_total,
                                    last_system_update, stat[c].pid,
                                    stat[c].utime, stat[c].stime,
                                    calc[c].now, calc[c].system_total)
           cpu_percent == IF tracker_some THEN r.cpu_percent ELSE Zero
           memory_bytes == MemoryBytes(stat[c].statm)
       IN /\ process_data' = IF tracker_some THEN r.process_data ELSE process_data
          /\ last_system_total' =
                 IF tracker_some THEN r.last_system_total ELSE last_system_total
          /\ last_system_update' =
                 IF tracker_some THEN r.last_system_update ELSE last_system_update
          /\ processes' = [processes EXCEPT ![c] =
                 Append(@, ProcessInfo(stat[c].pid, cpu_percent, memory_bytes,
                                       stat[c].state, stat[c].ppid))]
    /\ lock' = 0
    /\ stat' = [stat EXCEPT ![c] = NoStat]
    /\ calc' = [calc EXCEPT ![c] = NoCalc]
    /\ Goto(c, "iter")
    /\ UNCHANGED <<procState, cgroupWritten, op, pid, path, trace>>
    /\ UNCHANGED <<now, tracker_some, all_procs, current_pids>>

ListCalcEnd(c) ==
    /\ CalcEndBody(c)
    /\ UNCHANGED <<observed_at, pass_start, uiVars>>

\* The same step, recording in observed_at when the pid was last observed.
ListCalcEndObserved(c) ==
    /\ CalcEndBody(c)
    /\ observed_at' = [observed_at EXCEPT ![stat[c].pid] = calc[c].now]
    /\ UNCHANGED <<pass_start, uiVars>>

\* Variant of ListCleanup that returns with the mutex still held.
ListCleanupHoldsLock(c) ==
    /\ op[c] = "list_processes" /\ pc[c] = "cleanup"
    /\ lock = 0
    /\ lock' = c
    /\ process_data' = IF tracker_some
                       THEN CleanupOldProcesses(process_data, current_pids[c])
                       ELSE process_data
    /\ Finish(c, Ok)
    /\ UNCHANGED <<procState, cgroupWritten, op, pid, path, trace>>
    /\ UNCHANGED <<now, tracker_some, last_system_total, last_system_update,
                   all_procs, stat, calc, current_pids, processes,
                   observed_at, pass_start, uiVars>>

\* { let mut g = CPU_TRACKER.lock().unwrap();
\*   tracker.cleanup_old_processes(&current_pids); }  Ok(processes)
ListCleanup(c) ==
    /\ op[c] = "list_processes" /\ pc[c] = "cleanup"
    /\ lock = 0
    /\ process_data' = IF tracker_some
                       THEN CleanupOldProcesses(process_data, current_pids[c])
                       ELSE process_data
    /\ Finish(c, Ok)
    /\ UNCHANGED <<procState, cgroupWritten, op, pid, path, trace>>
    /\ UNCHANGED <<now, tracker_some, last_system_total, last_system_update,
                   lock, all_procs, stat, calc, current_pids, processes, observed_at, pass_start, uiVars>>

\* The caller takes the returned vector and is free to call again.
ListReturn(c) ==
    /\ op[c] = "list_processes" /\ pc[c] = "done"
    /\ op' = [op EXCEPT ![c] = "idle"]
    /\ pc' = [pc EXCEPT ![c] = "idle"]
    /\ result' = [result EXCEPT ![c] = NoResult]
    /\ all_procs' = [all_procs EXCEPT ![c] = <<>>]
    /\ current_pids' = [current_pids EXCEPT ![c] = <<>>]
    /\ processes' = [processes EXCEPT ![c] = <<>>]
    /\ UNCHANGED <<procState, cgroupWritten, pid, path, trace>>
    /\ UNCHANGED <<now, tracker_some, process_data, last_system_total,
                   last_system_update, lock, stat, calc, observed_at, pass_start, uiVars>>

\* ------------------------------------------------------------ environment
\* The monotonic clock advances by one time unit.
Tick ==
    /\ now < MaxTime
    /\ now' = now + 1
    /\ UNCHANGED killVars
    /\ UNCHANGED <<tracker_some, process_data, last_system_total,
                   last_system_update, lock, all_procs, stat, calc,
                   current_pids, processes, observed_at, pass_start, uiVars>>

\* A new process appears under a free pid (pid reuse included).
ProcessSpawn(p) ==
    /\ procState[p] = "X"
    /\ procState' = [procState EXCEPT ![p] = "R"]
    /\ UNCHANGED <<cgroupWritten, op, pc, pid, path, trace, result>>
    /\ UNCHANGED <<listVars, uiVars>>

\* ---------------------------------------------------------- specification
Init ==
    /\ procState \in [Pids -> {"R", "D", "Z", "X"}]
    /\ cgroupWritten = {}
    /\ op = [c \in Calls |-> "idle"]
    /\ pc = [c \in Calls |-> "idle"]
    /\ pid = [c \in Calls |-> 0]
    /\ path = [c \in Calls |-> ""]
    /\ trace = [c \in Calls |-> <<>>]
    /\ result = [c \in Calls |-> NoResult]
    /\ now = 0
    /\ tracker_some = FALSE
    /\ process_data = [p \in Pids |-> NoSample]
    /\ last_system_total = 0
    /\ last_system_update = 0
    /\ lock = 0
    /\ all_procs = [c \in Calls |-> <<>>]
    /\ stat = [c \in Calls |-> NoStat]
    /\ calc = [c \in Calls |-> NoCalc]
    /\ current_pids = [c \in Calls |-> <<>>]
    /\ processes = [c \in Calls |-> <<>>]
    /\ observed_at = [p \in Pids |-> -1]
    /\ pass_start = -1
    /\ app_processes = <<>>
    /\ last_refresh = 0
    /\ killing = {}
    /\ pending = <<>>
    /\ task = [c \in Calls |-> 0]

Next ==
    \/ \E c \in Calls, p \in Pids : CallKillPid(c, p)
    \/ \E c \in Calls : KillStop(c)
    \/ \E c \in Calls : KillTerm(c)
    \/ \E c \in Calls : KillSleep(c)
    \/ \E c \in Calls : KillProbe(c)
    \/ \E c \in Calls : KillKill(c)
    \/ \E c \in Calls, p \in Pids : KillTree(c, p)
    \/ \E c \in Calls, cg \in CgroupPaths : KillCgroup(c, cg)
    \/ \E c \in Calls : Return(c)
    \/ \E p \in Pids : ProcessExit(p)

Spec == Init /\ [][Next]_vars

\* The process table at start-up holds running processes only.
ListInit == Init /\ procState \in [Pids -> {"R", "X"}]

\* Concurrent list_processes callers, one call each, over a changing
\* process table.
ListNext ==
    \/ \E c \in Calls : CallListProcesses(c)
    \/ \E c \in Calls : ListInitTracker(c)
    \/ \E c \in Calls : ListNextProc(c)
    \/ \E c \in Calls : ListCalcBegin(c)
    \/ \E c \in Calls : ListCalcEnd(c)
    \/ \E c \in Calls : ListCleanup(c)
    \/ \E p \in Pids : ProcessExit(p)
    \/ \E p \in Pids : ProcessSpawn(p)

\* A state the serial system reaches: the tracker exists, an enumeration at
\* time 0 (all counters at 0) left any of the samples below, and one second
\* has passed since.
WarmInit ==
    /\ procState \in [Pids -> {"R", "X"}]
    /\ cgroupWritten = {}
    /\ op = [c \in Calls |-> "idle"]
    /\ pc = [c \in Calls |-> "idle"]
    /\ pid = [c \in Calls |-> 0]
    /\ path = [c \in Calls |-> ""]
    /\ trace = [c \in Calls |-> <<>>]
    /\ result = [c \in Calls |-> NoResult]
    /\ now = UnitsPerSecond
    /\ tracker_some = TRUE
    /\ process_data \in [Pids -> {NoSample, Sample(0, 0)}]
    /\ last_system_total = 0
    /\ last_system_update = 0
    /\ lock = 0
    /\ all_procs = [c \in Calls |-> <<>>]
    /\ stat = [c \in Calls |-> NoStat]
    /\ calc = [c \in Calls |-> NoCalc]
    /\ current_pids = [c \in Calls |-> <<>>]
    /\ processes = [c \in Calls |-> <<>>]
    /\ observed_at = [p \in Pids |-> -1]
    /\ pass_start = -1
    /\ app_processes = <<>>
    /\ last_refresh = 0
    /\ killing = {}
    /\ pending = <<>>
    /\ task = [c \in Calls |-> 0]

\* Overlapping list_processes calls within one instant, from a cold or a
\* warm tracker.
ListSpec == (ListInit \/ WarmInit) /\ [][ListNext]_vars

\* list_processes calls that do not overlap: a call starts only when no
\* other call is in progress.
CallListAlone(c) ==
    /\ \A d \in Calls : op[d] = "idle"
    /\ CallListProcesses(c)

SerialNext ==
    \/ \E c \in Calls : CallListAlone(c)
    \/ \E c \in Calls : ListInitTracker(c)
    \/ \E c \in Calls : ListNextProc(c)
    \/ \E c \in Calls : ListCalcBegin(c)
    \/ \E c \in Calls : ListCalcEnd(c)
    \/ \E c \in Calls : ListCleanup(c)
    \/ \E c \in Calls : ListReturn(c)
    \/ Tick
    \/ \E p \in Pids : ProcessExit(p)
    \/ \E p \in Pids : ProcessSpawn(p)

SerialSpec == ListInit /\ [][SerialNext]_vars

\* Every stored sample, the system-wide one included, is at least one
\* second old.
SamplesAged ==
    /\ tracker_some
    /\ now - last_system_update >= UnitsPerSecond
    /\ \A p \in Pids :
          process_data[p] # NoSample =>
              now - process_data[p].last_update >= UnitsPerSecond

\* A call that starts alone, recording in pass_start whether the samples
\* were aged when it started.
CallListAloneTimed(c) ==
    /\ \A d \in Calls : op[d] = "idle"
    /\ CallListBody(c)
    /\ pass_start' = IF SamplesAged THEN now ELSE -1
    /\ UNCHANGED uiVars

\* The serial system with the start of each pass recorded.
PassNext ==
    \/ \E c \in Calls : CallListAloneTimed(c)
    \/ \E c \in Calls : ListInitTracker(c)
    \/ \E c \in Calls : ListNextProc(c)
    \/ \E c \in Calls : ListCalcBegin(c)
    \/ \E c \in Calls : ListCalcEnd(c)
    \/ \E c \in Calls : ListCleanup(c)
    \/ \E c \in Calls : ListReturn(c)
    \/ Tick
    \/ \E p \in Pids : ProcessExit(p)
    \/ \E p \in Pids : ProcessSpawn(p)

PassSpec == ListInit /\ [][PassNext]_vars

\* The steps inside a list_processes or kill_pid call of caller c.
CallStep(c) ==
    \/ ListInitTracker(c)
    \/ ListNextProc(c)
    \/ ListCalcBegin(c)
    \/ ListCalcEnd(c)
    \/ ListCleanup(c)
    \/ KillStop(c)
    \/ KillTerm(c)
    \/ KillSleep(c)
    \/ KillProbe(c)
    \/ KillKill(c)

\* Every caller makes one call, list_processes or kill_pid, and the calls
\* overlap freely while processes exit on their own.
MixedNext ==
    \/ \E c \in Calls : CallListProcesses(c)
    \/ \E c \in Calls, p \in Pids : CallKillPid(c, p)
    \/ \E c \in Calls : ListInitTracker(c)
    \/ \E c \in Calls : ListNextProc(c)
    \/ \E c \in Calls : ListCalcBegin(c)
    \/ \E c \in Calls : ListCalcEnd(c)
    \/ \E c \in Calls : ListCleanup(c)
    \/ \E c \in Calls : KillStop(c)
    \/ \E c \in Calls : KillTerm(c)
    \/ \E c \in Calls : KillSleep(c)
    \/ \E c \in Calls : KillProbe(c)
    \/ \E c \in Calls : KillKill(c)
    \/ \E p \in Pids : ProcessExit(p)

\* Each calling thread is scheduled fairly: a call that can take a step
\* eventually takes one.
MixedLive ==
    /\ ListInit
    /\ [][MixedNext]_vars
    /\ \A c \in Calls : WF_vars(CallStep(c))

\* The serial system with the observation history recorded. One thread
\* repeats the call, as the front end's refresh does.
HistoryNext ==
    \/ CallListAlone(1)
    \/ \E c \in Calls : ListInitTracker(c)
    \/ \E c \in Calls : ListNextProc(c)
    \/ \E c \in Calls : ListCalcBegin(c)
    \/ \E c \in Calls : ListCalcEndObserved(c)
    \/ \E c \in Calls : ListCleanup(c)
    \/ \E c \in Calls : ListReturn(c)
    \/ Tick
    \/ \E p \in Pids : ProcessExit(p)
    \/ \E p \in Pids : ProcessSpawn(p)

HistorySpec == ListInit /\ [][HistoryNext]_vars

\* ======================================================================
\* The front end (frontend-egui/src/main.rs, ui/process_table.rs)
\* ======================================================================

\* Duration::from_millis(200)
RefreshMillis == 200
\* spawn_blocking closures queued at one time, at most.
MaxPending == 2

\* The caller that is the UI thread; the other callers are the threads of
\* the blocking pool.
UiThread == 1
Workers == Calls \ {UiThread}

\* The pids of the displayed snapshot.
Displayed == {app_processes[i].pid : i \in 1..Len(app_processes)}

\* self.last_refresh.elapsed() > Duration::from_millis(200)
RefreshDue == (now - last_refresh) * 1000 > RefreshMillis * UnitsPerSecond

\* update(): the refresh is due and the UI thread calls list_processes().
UiRefreshBegin ==
    /\ op[UiThread] = "idle"
    /\ RefreshDue
    /\ CallListProcesses(UiThread)

\* Variant of UiRefreshEnd that resets the timestamp only on success.
UiRefreshEndStampOnOk ==
    /\ op[UiThread] = "list_processes" /\ pc[UiThread] = "done"
    /\ app_processes' = IF result[UiThread] = Ok
                        THEN processes[UiThread] ELSE app_processes
    /\ last_refresh' = IF result[UiThread] = Ok THEN now ELSE last_refresh
    /\ op' = [op EXCEPT ![UiThread] = "idle"]
    /\ pc' = [pc EXCEPT ![UiThread] = "idle"]
    /\ result' = [result EXCEPT ![UiThread] = NoResult]
    /\ all_procs' = [all_procs EXCEPT ![UiThread] = <<>>]
    /\ current_pids' = [current_pids EXCEPT ![UiThread] = <<>>]
    /\ processes' = [processes EXCEPT ![UiThread] = <<>>]
    /\ UNCHANGED <<procState, cgroupWritten, pid, path, trace>>
    /\ UNCHANGED <<now, tracker_some, process_data, last_system_total,
                   last_system_update, lock, stat, calc, observed_at, pass_start>>
    /\ UNCHANGED <<killing, pending, task>>

\* if let Ok(list) = list_processes() { *proc_lock = list; }
\* self.last_refresh = Instant::now();
UiRefreshEnd ==
    /\ op[UiThread] = "list_processes" /\ pc[UiThread] = "done"
    /\ app_processes' = IF result[UiThread] = Ok
                        THEN processes[UiThread] ELSE app_processes
    /\ last_refresh' = now
    /\ op' = [op EXCEPT ![UiThread] = "idle"]
    /\ pc' = [pc EXCEPT ![UiThread] = "idle"]
    /\ result' = [result EXCEPT ![UiThread] = NoResult]
    /\ all_procs' = [all_procs EXCEPT ![UiThread] = <<>>]
    /\ current_pids' = [current_pids EXCEPT ![UiThread] = <<>>]
    /\ processes' = [processes EXCEPT ![UiThread] = <<>>]
    /\ UNCHANGED <<procState, cgroupWritten, pid, path, trace>>
    /\ UNCHANGED <<now, tracker_some, process_data, last_system_total,
                   last_system_update, lock, stat, calc, observed_at, pass_start>>
    /\ UNCHANGED <<killing, pending, task>>

\* Variant of UiClickKill whose button is never disabled.
UiClickKillAlwaysEnabled(p) ==
    /\ op[UiThread] = "idle"
    /\ p \in Displayed
    /\ Len(pending) < MaxPending
    /\ killing' = killing \cup {p}
    /\ pending' = Append(pending, p)
    /\ UNCHANGED <<killVars, listVars, app_processes, last_refresh, task>>

\* let is_killing = killing.lock().unwrap().contains(&p.pid);
\* if ui.add_enabled(!is_killing, btn).clicked() {
\*     killing.insert(p.pid); spawn_blocking(move || { .. }); }
UiClickKill(p) ==
    /\ op[UiThread] = "idle"
    /\ p \in Displayed
    /\ p \notin killing
    /\ Len(pending) < MaxPending
    /\ killing' = killing \cup {p}
    /\ pending' = Append(pending, p)
    /\ UNCHANGED <<killVars, listVars, app_processes, last_refresh, task>>

\* A thread of the blocking pool takes the oldest queued closure.
TaskStart(c) ==
    /\ c \in Workers
    /\ op[c] = "idle" /\ task[c] = 0
    /\ pending # <<>>
    /\ task' = [task EXCEPT ![c] = Head(pending)]
    /\ pending' = Tail(pending)
    /\ UNCHANGED <<killVars, listVars, app_processes, last_refresh, killing>>

\* let _ = kill_pid(pid): the call is made.
TaskKill(c) ==
    /\ c \in Workers
    /\ task[c] # 0
    /\ CallKillPid(c, task[c])

\* Variant of TaskFinish that leaves the pid in the set when kill_pid failed.
TaskFinishOnOk(c) ==
    /\ c \in Workers
    /\ task[c] # 0
    /\ op[c] = "kill_pid" /\ pc[c] = "done"
    /\ killing' = IF result[c] = Ok THEN killing \ {task[c]} ELSE killing
    /\ task' = [task EXCEPT ![c] = 0]
    /\ op' = [op EXCEPT ![c] = "idle"]
    /\ pc' = [pc EXCEPT ![c] = "idle"]
    /\ pid' = [pid EXCEPT ![c] = 0]
    /\ trace' = [trace EXCEPT ![c] = <<>>]
    /\ result' = [result EXCEPT ![c] = NoResult]
    /\ UNCHANGED <<procState, cgroupWritten, path>>
    /\ UNCHANGED <<listVars, app_processes, last_refresh, pending>>

\* kill_pid has returned, its result is dropped:
\* killing.lock().unwrap().remove(&pid);
TaskFinish(c) ==
    /\ c \in Workers
    /\ task[c] # 0
    /\ op[c] = "kill_pid" /\ pc[c] = "done"
    /\ killing' = killing \ {task[c]}
    /\ task' = [task EXCEPT ![c] = 0]
    /\ op' = [op EXCEPT ![c] = "idle"]
    /\ pc' = [pc EXCEPT ![c] = "idle"]
    /\ pid' = [pid EXCEPT ![c] = 0]
    /\ trace' = [trace EXCEPT ![c] = <<>>]
    /\ result' = [result EXCEPT ![c] = NoResult]
    /\ UNCHANGED <<procState, cgroupWritten, path>>
    /\ UNCHANGED <<listVars, app_processes, last_refresh, pending>>

\* The steps of the kill_pid call a pool thread is making.
WorkerStep(c) ==
    /\ c \in Workers
    /\ \/ TaskStart(c)
       \/ TaskKill(c)
       \/ KillStop(c)
       \/ KillTerm(c)
       \/ KillSleep(c)
       \/ KillProbe(c)
       \/ KillKill(c)
       \/ TaskFinish(c)

\* The periodic refresh of the UI thread over a changing process table; the
\* application starts with an empty snapshot and the refresh timestamp at
\* the start-up instant.
RefreshNext ==
    \/ UiRefreshBegin
    \/ ListInitTracker(UiThread)
    \/ ListNextProc(UiThread)
    \/ ListCalcBegin(UiThread)
    \/ ListCalcEnd(UiThread)
    \/ ListCleanup(UiThread)
    \/ UiRefreshEnd
    \/ Tick
    \/ \E p \in Pids : ProcessExit(p)
    \/ \E p \in Pids : ProcessSpawn(p)

RefreshSpec == ListInit /\ [][RefreshNext]_vars

\* The list a first list_processes call returns for the live pids in shown,
\* from pid k on: every cpu_percent is 0.
RECURSIVE FirstList(_, _)
FirstList(k, shown) ==
    IF k > NumPids THEN <<>>
    ELSE (IF k \in shown
          THEN <<ProcessInfo(k, Zero, MemoryBytes(MaxResident), "R", Ppid(k))>>
          ELSE <<>>) \o FirstList(k + 1, shown)

\* The application after its first refresh, made one time unit after
\* start-up, showed the processes in shown; the process table has gone on
\* changing since.
KillUiInit ==
    \E shown \in (SUBSET Pids) \ {{}} :
        /\ procState \in [Pids -> {"R", "X"}]
        /\ cgroupWritten = {}
        /\ op = [c \in Calls |-> "idle"]
        /\ pc = [c \in Calls |-> "idle"]
        /\ pid = [c \in Calls |-> 0]
        /\ path = [c \in Calls |-> ""]
        /\ trace = [c \in Calls |-> <<>>]
        /\ result = [c \in Calls |-> NoResult]
        /\ now = 1
        /\ tracker_some = TRUE
        /\ process_data = [p \in Pids |-> IF p \in shown THEN Sample(0, 1)
                                                        ELSE NoSample]
        /\ last_system_total = 0
        /\ last_system_update = 1
        /\ lock = 0
        /\ all_procs = [c \in Calls |-> <<>>]
        /\ stat = [c \in Calls |-> NoStat]
        /\ calc = [c \in Calls |-> NoCalc]
        /\ current_pids = [c \in Calls |-> <<>>]
        /\ processes = [c \in Calls |-> <<>>]
        /\ observed_at = [p \in Pids |-> -1]
        /\ pass_start = -1
        /\ app_processes = FirstList(1, shown)
        /\ last_refresh = 1
        /\ killing = {}
        /\ pending = <<>>
        /\ task = [c \in Calls |-> 0]

\* Kill clicks on the displayed rows and the kills they start on the
\* blocking pool, between two refreshes.
KillUiNext ==
    \/ \E p \in Pids : UiClickKill(p)
    \/ \E c \in Calls : TaskStart(c)
    \/ \E c \in Calls : TaskKill(c)
    \/ \E c \in Workers : KillStop(c)
    \/ \E c \in Workers : KillTerm(c)
    \/ \E c \in Workers : KillSleep(c)
    \/ \E c \in Workers : KillProbe(c)
    \/ \E c \in Workers : KillKill(c)
    \/ \E c \in Calls : TaskFinish(c)
    \/ \E p \in Pids : ProcessExit(p)
    \/ \E p \in Pids : ProcessSpawn(p)

KillUiSpec == KillUiInit /\ [][KillUiNext]_vars

\* The same with the threads of the blocking pool scheduled fairly: a
\* thread that can take a step eventually takes one.
KillUiLive ==
    /\ KillUiInit
    /\ [][KillUiNext]_vars
    /\ \A c \in Workers : WF_vars(WorkerStep(c))

TypeOK ==
    /\ procState \in [Pids -> ProcStates]
    /\ op \in [Calls -> {"idle", "kill_pid", "kill_tree", "kill_cgroup"}]
    /\ \A c \in Calls : Len(trace[c]) <= 5

\* ------------------------------------------------- vocabulary of the claims
\* The escalation protocol of the single-PID kill, step by step.
Protocol == <<"SIGSTOP", "SIGTERM", "wait500", "probe", "SIGKILL">>

IsPrefix(s, t) == Len(s) <= Len(t) /\ \A i \in 1..Len(s) : s[i] = t[i]

\* The kinds of kernel action caller c has performed so far, in order.
Actions(c) == [i \in 1..Len(trace[c]) |-> trace[c][i].sig]

Sent(c, sig) == \E i \in 1..Len(trace[c]) : trace[c][i].sig = sig

LastEntry(c) == trace[c][Len(trace[c])]

KillPidDone(c) == op[c] = "kill_pid" /\ pc[c] = "done"

KillTreeDone(c) == op[c] = "kill_tree" /\ pc[c] = "done"

\* Process Graph Resolver: p is a transitive descendant of root by the ppid
\* links of the live processes.
Snapshot == {p \in Pids : procState[p] # "X"}

RECURSIVE IsDescendant(_, _)
IsDescendant(p, root) ==
    /\ p \in Snapshot
    /\ Ppid(p) # 0
    /\ \/ Ppid(p) = root
       \/ IsDescendant(Ppid(p), root)

TreeOf(root) == {root} \cup {p \in Pids : IsDescendant(p, root)}

\* Caller c applied the kill protocol to member m.
Applied(c, m) == \E i \in 1..Len(trace[c]) : trace[c][i].pid = m

\* ------------------------------------------------------------------ claims

\* C1: the kernel actions of every kill_pid call form a prefix of
\* <SIGSTOP, SIGTERM, wait 500 ms, probe, SIGKILL>, all aimed at the pid the
\* call was given: each step at most once, in that order, nothing else.
C1_ProtocolPrefix ==
    \A c \in Calls :
        op[c] = "kill_pid" =>
            /\ IsPrefix(Actions(c), Protocol)
            /\ \A i \in 1..Len(trace[c]) : trace[c][i].pid = pid[c]

\* A kill_pid call that went through all five steps.
C1_Witness ==
    \E c \in Calls : KillPidDone(c) /\ Actions(c) = Protocol

\* C2: when SIGSTOP and SIGTERM were accepted and the probe finds the target
\* absent, the call returns Ok and it never sends SIGKILL.
C2_AbsentAtProbe ==
    \A c \in Calls :
        ( /\ op[c] = "kill_pid"
          /\ Len(trace[c]) >= 4
          /\ trace[c][1].res = "OK"
          /\ trace[c][2].res = "OK"
          /\ trace[c][4].sig = "probe"
          /\ trace[c][4].res = "ESRCH" )
        => /\ ~Sent(c, "SIGKILL")
           /\ pc[c] = "done"
           /\ result[c] = Ok

\* A call whose target took SIGSTOP and SIGTERM and was gone at the probe.
C2_Witness ==
    \E c \in Calls :
        /\ KillPidDone(c)
        /\ Len(trace[c]) = 4
        /\ trace[c][1] = Entry(pid[c], "SIGSTOP", "OK")
        /\ trace[c][2] = Entry(pid[c], "SIGTERM", "OK")
        /\ trace[c][4] = Entry(pid[c], "probe", "ESRCH")

\* C3: a kill_pid call whose send found the target absent (at SIGSTOP, at
\* SIGTERM or at SIGKILL) returns success.
C3_AbsentIsSuccess ==
    \A c \in Calls :
        (KillPidDone(c) /\ LastEntry(c).res = "ESRCH") => result[c] = Ok

\* C4: kill_pid on a pid in disk-wait or zombie state sends no signal and
\* returns UnkillableState(pid).
C4_UnkillableState ==
    \A c \in Calls :
        (op[c] = "kill_pid" /\ procState[pid[c]] \in {"D", "Z"}) =>
            /\ trace[c] = <<>>
            /\ pc[c] = "done" =>
                   result[c] = [kind |-> "UnkillableState", pid |-> pid[c], cause |-> ""]

\* C5: a send rejected for lack of privilege makes kill_pid return
\* PermissionDenied(pid); SignalError is returned only for failures that are
\* neither permission failures nor target-absent failures.
C5_PermissionDenied ==
    \A c \in Calls :
        KillPidDone(c) =>
            /\ LastEntry(c).res = "EPERM" =>
                   result[c] = [kind |-> "PermissionDenied", pid |-> pid[c], cause |-> ""]
            /\ result[c].kind = "SignalError" =>
                   LastEntry(c).res \notin {"EPERM", "ESRCH"}

\* C6: a kill_pid call that delivered SIGSTOP returns only after the probe
\* found the target absent or after SIGKILL was sent, and it never leaves an
\* existing target stopped without SIGKILL.
C6_RunsToCompletion ==
    \A c \in Calls :
        (KillPidDone(c) /\ trace[c][1].res = "OK") =>
            /\ \/ LastEntry(c).sig = "probe" /\ LastEntry(c).res = "ESRCH"
               \/ Sent(c, "SIGKILL")
            /\ procState[pid[c]] = "T" => Sent(c, "SIGKILL")

\* C7: kill_tree returns success only if the kill protocol was applied, with
\* success, to the root and to every transitive descendant.
C7_TreeSuccessMeansAllKilled ==
    \A c \in Calls :
        (KillTreeDone(c) /\ result[c] = Ok) =>
            \A m \in TreeOf(pid[c]) :
                /\ Applied(c, m)
                /\ \A i \in 1..Len(trace[c]) :
                       (trace[c][i].pid = m /\ trace[c][i].sig # "probe")
                       => trace[c][i].res = "OK"

\* C8: kill_tree does not short-circuit: with a member whose kill fails for
\* lack of privilege, every other member is still attempted and the result
\* is not a plain success.
C8_TreeNoShortCircuit ==
    \A c \in Calls :
        KillTreeDone(c) =>
            \A b \in TreeOf(pid[c]) :
                (procState[b] # "X" /\ ~Permitted(b)) =>
                    /\ \A m \in TreeOf(pid[c]) \ {b} : Applied(c, m)
                    /\ result[c] # Ok

\* C9: every pid signalled by kill_tree(pid) is pid itself or one of its
\* transitive descendants.
C9_TreeNoCollateral ==
    \A c \in Calls :
        op[c] = "kill_tree" =>
            \A i \in 1..Len(trace[c]) : trace[c][i].pid \in TreeOf(pid[c])

\* kill_tree has returned for a pid whose parent is a live process.
C9_Witness ==
    \E c \in Calls :
        /\ KillTreeDone(c)
        /\ Ppid(pid[c]) # 0
        /\ procState[Ppid(pid[c])] # "X"
        /\ procState[pid[c]] # "X"

\* C10: kill_cgroup writes the kill directive to the control file, returns
\* CgroupError when the file is absent or the write rejected, and never
\* returns success for a path without control file.
C10_CgroupKill ==
    \A c \in Calls :
        (op[c] = "kill_cgroup" /\ pc[c] = "done") =>
            IF ControlFileExists(path[c])
            THEN path[c] \in cgroupWritten \/ result[c].kind = "CgroupError"
            ELSE result[c].kind = "CgroupError"

\* ----------------------------------------------- claims on list_processes
ListDone(c) == op[c] = "list_processes" /\ pc[c] = "done"

\* The pids of the records caller c has pushed so far.
ResultPids(c) == {processes[c][i].pid : i \in 1..Len(processes[c])}

Tracked == {p \in Pids : process_data[p] # NoSample}

\* C11: every cpu_percent of every ProcessInfo built by list_processes lies
\* in [0, 100], whatever the tick counters read.
C11_CpuPercentInRange ==
    \A c \in Calls : \A i \in 1..Len(processes[c]) :
        /\ RatLe(Zero, processes[c][i].cpu_percent)
        /\ RatLe(processes[c][i].cpu_percent, Hundred)

\* A returned list with a record at 100 %.
C11_Witness ==
    \E c \in Calls :
        /\ ListDone(c) /\ result[c] = Ok
        /\ \E i \in 1..Len(processes[c]) : processes[c][i].cpu_percent = Hundred

\* Caller c completes a calculate_cpu_percent call in this step.
CalcStep(c) == pc[c] = "calc2" /\ pc'[c] = "iter"

\* The value that call returned, as pushed into the caller's list.
Reported(c) == processes'[c][Len(processes'[c])].cpu_percent

\* C12 (as stated): a pid observed less than one second after its previous
\* observation is reported at 0.
C12_TwoObservationsUnderOneSecond ==
    [][\A c \in Calls :
          ( /\ CalcStep(c)
            /\ observed_at[stat[c].pid] >= 0
            /\ calc[c].now - observed_at[stat[c].pid] < UnitsPerSecond )
          => Reported(c) = Zero]_vars

\* C12 (amended): a pid observed less than one second after its stored
\* sample was taken is reported at 0, whatever the tick counters are.
C12_SampleUnderOneSecond ==
    [][\A c \in Calls :
          ( /\ CalcStep(c)
            /\ process_data[stat[c].pid] # NoSample
            /\ calc[c].now - process_data[stat[c].pid].last_update < UnitsPerSecond )
          => Reported(c) = Zero]_vars

\* A pid was observed less than one second after its stored sample was
\* taken, and the sample was kept.
C12_Witness ==
    \E p \in Pids :
        /\ process_data[p] # NoSample
        /\ observed_at[p] > process_data[p].last_update
        /\ observed_at[p] - process_data[p].last_update < UnitsPerSecond

\* C13: when a list_processes call that ran alone has returned Ok, the pids
\* with a stored sample are exactly the pids of its result.
C13_HistoryIsLastEnumeration ==
    \A c \in Calls :
        (ListDone(c) /\ result[c] = Ok) => Tracked = ResultPids(c)

\* A call has returned a list that lacks a pid observed by an earlier call,
\* and that pid's sample is gone.
C13_Witness ==
    \E c \in Calls :
        /\ ListDone(c) /\ result[c] = Ok
        /\ ResultPids(c) # {}
        /\ \E p \in Pids :
              /\ observed_at[p] >= 0
              /\ p \notin ResultPids(c)
              /\ process_data[p] = NoSample

\* C14: while a caller is inside calculate_cpu_percent it holds the tracker
\* lock, no other caller is inside, and the sample it read is still the
\* stored one: no read or write of another caller interleaves.
C14_EstimatorStepAtomic ==
    \A c \in Calls :
        pc[c] = "calc2" =>
            /\ lock = c
            /\ calc[c].prev_data = process_data[stat[c].pid]
            /\ \A d \in Calls \ {c} : pc[d] # "calc2"

\* One caller is inside the delta computation for a pid while another
\* caller waits for the lock with the same pid.
C14_Witness ==
    \E c, d \in Calls :
        /\ c # d
        /\ pc[c] = "calc2" /\ pc[d] = "calc"
        /\ stat[c].pid = stat[d].pid
        /\ calc[c].prev_data # NoSample
        /\ calc[c].now - calc[c].prev_data.last_update >= UnitsPerSecond

\* The pids pushed to current_pids by caller c.
CurrentPids(c) == {current_pids[c][i] : i \in 1..Len(current_pids[c])}

\* Caller c has read /proc and is walking the entries.
Enumerating(c) ==
    op[c] = "list_processes" /\ pc[c] \in {"init", "iter", "calc", "calc2", "cleanup"}

\* The next entry of caller c is one whose stat record cannot be read.
AtUnreadableStat(c) ==
    /\ op[c] = "list_processes" /\ pc[c] = "iter"
    /\ all_procs[c] # <<>>
    /\ procState[Head(all_procs[c])] = "X"

\* C15: once /proc has been read the call cannot fail: an entry whose stat
\* record is unreadable is passed over with the records collected so far
\* kept, and the call ends Ok with a record for every pid whose stat record
\* was read.
C15_UnreadableStatIsSkipped ==
    [][\A c \in Calls :
          /\ Enumerating(c) =>
                IF pc'[c] = "done"
                THEN result'[c] = Ok /\ ResultPids(c)' = CurrentPids(c)
                ELSE result'[c] = NoResult
          /\ (AtUnreadableStat(c) /\ all_procs'[c] # all_procs[c]) =>
                /\ pc'[c] = "iter"
                /\ processes'[c] = processes[c]
                /\ current_pids'[c] = current_pids[c]]_vars

\* An enumeration that already holds a record is at an entry whose stat
\* record cannot be read.
C15_Witness ==
    \E c \in Calls : AtUnreadableStat(c) /\ processes[c] # <<>>

\* C16: a process whose statm record is unreadable gets a record with
\* memory_bytes = 0 appended, is in the live-pid set, and leaves the
\* estimator call with a stored sample.
C16_UnreadableStatmIsZeroMemory ==
    [][\A c \in Calls :
          (CalcStep(c) /\ stat[c].statm = -1) =>
              LET p == stat[c].pid
                  n == Len(processes'[c])
              IN /\ n = Len(processes[c]) + 1
                 /\ processes'[c][n].pid = p
                 /\ processes'[c][n].memory_bytes = 0
                 /\ p \in CurrentPids(c)
                 /\ process_data'[p] # NoSample
                 /\ process_data'[p] =
                        CalculateCpuPercent(process_data, last_system_total,
                            last_system_update, p, stat[c].utime, stat[c].stime,
                            calc[c].now, calc[c].system_total).process_data[p]]_vars

\* A returned list holds a zero-memory record with a non-zero CPU figure.
C16_Witness ==
    \E c \in Calls :
        /\ ListDone(c) /\ result[c] = Ok
        /\ \E i \in 1..Len(processes[c]) :
              /\ processes[c][i].memory_bytes = 0
              /\ processes[c][i].cpu_percent # Zero
              /\ processes[c][i].pid \in Tracked

\* C17: a call that fails to read /proc ends with the error Other and an
\* empty list, and leaves the tracker and its samples as they were.
C17_ProcUnreadableLeavesHistory ==
    [][\A c \in Calls :
          (op[c] = "idle" /\ op'[c] = "list_processes" /\ pc'[c] = "done") =>
              /\ result'[c] = Other
              /\ processes'[c] = <<>>
              /\ UNCHANGED <<tracker_some, process_data, last_system_total,
                             last_system_update>>]_vars

\* A call has failed with Other while samples were stored, and they remain.
C17_Witness ==
    \E c \in Calls :
        /\ ListDone(c) /\ result[c] = Other
        /\ Tracked # {}

\* Time units between the stored sample of the pid caller c is observing and
\* the instant the call read, and between the system sample and that instant.
PidElapsed(c) == calc[c].now - process_data[stat[c].pid].last_update
SystemElapsed(c) == calc[c].now - last_system_update

\* Caller c completes an observation of a pid that has a stored sample.
TrackedStep(c) == CalcStep(c) /\ process_data[stat[c].pid] # NoSample

\* C18: the first observation of a pid stores its cumulative ticks and the
\* timestamp, reports 0, and leaves the system-wide sample and the other
\* pids' samples alone.
C18_FirstObservation ==
    [][\A c \in Calls :
          (CalcStep(c) /\ process_data[stat[c].pid] = NoSample) =>
              LET p == stat[c].pid IN
              /\ process_data' = [process_data EXCEPT ![p] =
                     Sample(stat[c].utime + stat[c].stime, calc[c].now)]
              /\ Reported(c) = Zero
              /\ UNCHANGED <<last_system_total, last_system_update>>]_vars

\* A pid that was observed before and whose sample has been evicted is
\* being observed again.
C18_Witness ==
    \E c \in Calls :
        /\ pc[c] = "calc2"
        /\ process_data[stat[c].pid] = NoSample
        /\ observed_at[stat[c].pid] >= 0
        /\ stat[c].utime + stat[c].stime > 0
        /\ calc[c].now > last_system_update

\* C19: an observation of a tracked pid with the per-PID or the system-wide
\* elapsed time under one second changes neither the stored per-PID samples
\* nor the system-wide sample.
C19_UnderThresholdKeepsSamples ==
    [][\A c \in Calls :
          ( /\ TrackedStep(c)
            /\ (PidElapsed(c) < UnitsPerSecond \/ SystemElapsed(c) < UnitsPerSecond) ) =>
              UNCHANGED <<process_data, last_system_total, last_system_update>>]_vars

\* A pid was last observed a second or more after its stored sample, and the
\* sample is still the old one (the system-wide elapsed time was short).
C19_Witness ==
    \E p \in Pids :
        /\ process_data[p] # NoSample
        /\ observed_at[p] - process_data[p].last_update >= UnitsPerSecond

\* The quotient n / d (d > 0) clamped to [0, 100] is the fraction r.
EqualsClamped(r, n, d) ==
    IF n <= 0 THEN r = Zero
    ELSE IF n >= 100 * d THEN r = Hundred
    ELSE r.num * d = n * r.den

\* C20: with both elapsed times at least one second the reported value is
\* clamp(100 * process_ticks_delta / system_ticks_delta) when the system
\* delta is positive, else
\* clamp(100 * (process_ticks_delta / 100) / elapsed_seconds).
C20_ReportedValue ==
    [][\A c \in Calls :
          ( /\ TrackedStep(c)
            /\ PidElapsed(c) >= UnitsPerSecond
            /\ SystemElapsed(c) >= UnitsPerSecond ) =>
              LET process_ticks_delta ==
                      (stat[c].utime + stat[c].stime)
                          - process_data[stat[c].pid].total_time
                  system_ticks_delta ==
                      SaturatingSub(calc[c].system_total, last_system_total)
              IN IF system_ticks_delta > 0
                 THEN EqualsClamped(Reported(c), 100 * process_ticks_delta,
                                    system_ticks_delta)
                 ELSE EqualsClamped(Reported(c),
                                    100 * process_ticks_delta * UnitsPerSecond,
                                    ClockTicksPerSecond * PidElapsed(c))]_vars

\* A returned list holds a value strictly between 0 and 100, which only the
\* time-based quotient produces here.
C20_Witness ==
    \E c \in Calls :
        /\ ListDone(c) /\ result[c] = Ok
        /\ \E i \in 1..Len(processes[c]) :
              /\ processes[c][i].cpu_percent # Zero
              /\ processes[c][i].cpu_percent # Hundred

\* Caller c completes an observation that takes the delta-computing branch.
DeltaStep(c) ==
    /\ TrackedStep(c)
    /\ PidElapsed(c) >= UnitsPerSecond
    /\ SystemElapsed(c) >= UnitsPerSecond

C23_AllTrackedAdvance ==
    \A c \in Calls :
        (ListDone(c) /\ result[c] = Ok /\ pass_start >= 0) =>
            \A p \in ResultPids(c) : process_data[p].last_update >= pass_start

\* Caller d is inside an enumeration that has observed pid p.
ObservedBy(d, p) ==
    /\ op[d] = "list_processes"
    /\ pc[d] \in {"iter", "calc", "calc2", "cleanup"}
    /\ p \in CurrentPids(d)

\* C24: the eviction step of one call never discards the sample of a live
\* pid that another call, still in progress, has observed.
C24_EvictionSparesOverlapping ==
    [][\A c \in Calls :
          (op[c] = "list_processes" /\ pc[c] = "cleanup" /\ pc'[c] = "done") =>
              \A p \in Pids :
                  (process_data[p] # NoSample /\ process_data'[p] = NoSample) =>
                      ~ \E d \in Calls \ {c} :
                            ObservedBy(d, p) /\ procState[p] # "X"]_vars

\* The i-th kernel action of caller c was performed and succeeded.
StepOk(c, i) == Len(trace[c]) >= i /\ trace[c][i].res = "OK"

\* The i-th kernel action of caller c was performed and failed.
StepFailed(c, i) == Len(trace[c]) >= i /\ trace[c][i].res # "OK"

\* SIGSTOP and SIGTERM were accepted, and then the probe failed or SIGKILL
\* was accepted.
OkPath(c) ==
    /\ StepOk(c, 1) /\ StepOk(c, 2)
    /\ StepFailed(c, 4) \/ StepOk(c, 5)

\* C26: a finished kill_pid call has returned Ok exactly on the path above,
\* otherwise SignalError with the pid it was given; a failed SIGSTOP or
\* SIGTERM is the last thing the call did.
C26_KillPidResult ==
    \A c \in Calls :
        KillPidDone(c) =>
            /\ result[c] = Ok <=> OkPath(c)
            /\ ~OkPath(c) =>
                  result[c].kind = "SignalError" /\ result[c].pid = pid[c]
            /\ StepFailed(c, 1) => Len(trace[c]) = 1
            /\ StepFailed(c, 2) => Len(trace[c]) = 2

\* A call that went through every step and whose SIGKILL send failed.
C26_Witness ==
    \E c \in Calls :
        /\ KillPidDone(c)
        /\ StepFailed(c, 5)
        /\ result[c].kind = "SignalError"

\* C25: the tracker lock is held only inside one estimator step (the
\* initialisation and the eviction take and release it within their step),
\* and every list_processes or kill_pid call that has started eventually
\* returns.
C25_EveryCallReturns ==
    /\ [](\A c \in Calls :
             lock = c => op[c] = "list_processes" /\ pc[c] = "calc2")
    /\ \A c \in Calls : (op[c] # "idle") ~> (pc[c] = "done")

\* A list_processes call holds the lock while a kill_pid call of another
\* caller is in its grace period.
C25_Witness ==
    \E c, d \in Calls :
        /\ op[c] = "list_processes" /\ pc[c] = "calc2" /\ lock = c
        /\ op[d] = "kill_pid" /\ pc[d] = "sleep"

\* ------------------------------------------------ claims on the front end
\* The UI thread takes the value its list_processes call returned.
RefreshEnds ==
    /\ op[UiThread] = "list_processes" /\ pc[UiThread] = "done"
    /\ op'[UiThread] = "idle"

\* C29: a refresh whose list_processes call failed keeps the displayed
\* snapshot, a successful one replaces it with the returned list; either
\* way the refresh timestamp is reset, and a refresh starts only when more
\* than 200 ms have passed since that timestamp.
C29_RefreshKeepsSnapshotOnError ==
    [][/\ RefreshEnds =>
             /\ app_processes' = IF result[UiThread] = Ok
                                 THEN processes[UiThread] ELSE app_processes
             /\ last_refresh' = now
       /\ (op[UiThread] = "idle" /\ op'[UiThread] = "list_processes") =>
             (now - last_refresh) * 1000 > RefreshMillis * UnitsPerSecond]_vars

\* A refresh has failed while a snapshot from an earlier refresh is shown.
C29_Witness ==
    /\ op[UiThread] = "list_processes" /\ pc[UiThread] = "done"
    /\ result[UiThread] = Other
    /\ app_processes # <<>>
    /\ now > last_refresh

\* The number of spawn_blocking closures for pid p that are queued or
\* running.
InFlight(p) ==
    Cardinality({i \in 1..Len(pending) : pending[i] = p})
        + Cardinality({c \in Calls : task[c] = p})

\* C27: a pid is in the killing set exactly while a closure for it is
\* queued or running, a click starts a closure only for a pid that is not
\* in the set, and no pid ever has more than one closure.
C27_OneKillPerPid ==
    [][/\ \A p \in Pids :
            /\ (p \in killing') <=> (InFlight(p)' >= 1)
            /\ InFlight(p)' <= 1
       /\ Len(pending') > Len(pending) =>
            pending'[Len(pending')] \notin killing]_vars

\* One pid is being killed by a pool thread while another waits in the
\* queue, both in the killing set.
C27_Witness ==
    /\ \E c \in Workers : task[c] # 0 /\ op[c] = "kill_pid"
    /\ pending # <<>>
    /\ Cardinality(killing) = 2

\* C28: a pid in the killing set is eventually out of it, whatever kill_pid
\* returned; the step that removes it changes nothing the UI displays.
C28_KillingEventuallyCleared ==
    /\ \A p \in Pids : (p \in killing) ~> (p \notin killing)
    /\ [][killing' # killing /\ pending' = pending =>
              UNCHANGED <<app_processes, last_refresh>>]_vars

\* kill_pid has returned an error to a pool thread whose pid is still in
\* the killing set.
C28_Witness ==
    \E c \in Workers :
        /\ task[c] # 0 /\ task[c] \in killing
        /\ op[c] = "kill_pid" /\ pc[c] = "done"
        /\ result[c].kind = "SignalError"
====
